---- MODULE Spec2Model ----
(***************************************************************************)
(* A model of coros_data_extractor: the activity lister, the retry-bounded *)
(* detail fetcher, the normalizer and the two orchestrators (extract_data  *)
(* and export_activities) of class CorosDataExtractor, run against a       *)
(* server whose answers are chosen nondeterministically.                   *)
(*                                                                         *)
(* Python values are modelled as follows.  None is the record None.  A     *)
(* dict is Dict(kv) with kv a function from its keys.  An int that is      *)
(* compared with an Enum member is IntVal(n), and an Enum member is        *)
(* EnumVal(cls, n): Python's == between the two is PyEq.  A listing entry  *)
(* (a dict with labelId and sportType) is represented by its labelId.      *)
(***************************************************************************)
EXTENDS Integers, Sequences, FiniteSets, TLC

\* ------------------------------------------------------------------ bounds

\* Servers with at most MaxFlaky activities answer every per-activity request
\* nondeterministically.
MaxFlaky == 3

\* The largest max_tries a direct call of get_raw_activity_data is given.
MaxTriesArg == 4

\* The longest frequencyList get_activity_data is called with.
MaxSamples == 3

\* The longest lapList get_laps_data is called with.
MaxGroups == 2

\* --------------------------------------------------------- program constants

ACTIVITY_PAGINATION_LIMIT == 200

DEFAULT_ACTIVITY_LIMIT == 200

MAX_TRIES == 3

\* ------------------------------------------------------------ Python values

None == [t |-> "None"]

Dict(kv) == [t |-> "dict", kv |-> kv]

IntVal(n) == [t |-> "int", v |-> n]

EnumVal(cls, n) == [t |-> cls, v |-> n]

EmptyDict == Dict(<<>>)

IsNone(x) == x.t = "None"

\* Python's ==: an int never equals a plain Enum member, whatever its value.
PyEq(a, b) == a.t = b.t /\ a.v = b.v

HasKey(d, k) == k \in DOMAIN d.kv

\* dict.get(k, default)
DictGet(d, k, default) == IF HasKey(d, k) THEN d.kv[k] ELSE default

Min(a, b) == IF a <= b THEN a ELSE b

\* math.ceil(a / b), b # 0
CeilDiv(a, b) == IF b > 0 THEN -((-a) \div b) ELSE -(a \div (-b))

RECURSIVE Join(_, _)
\* sep.join(str(x) for x in seq)
Join(sep, seq) ==
  IF Len(seq) = 0 THEN ""
  ELSE IF Len(seq) = 1 THEN ToString(seq[1])
  ELSE ToString(seq[1]) \o sep \o Join(sep, Tail(seq))

\* The sequence <<a, a+1, ..., b>> (empty when a > b).
Range(a, b) == IF a > b THEN <<>> ELSE [i \in 1..(b - a + 1) |-> a + i - 1]

\* ------------------------------------------------------------------- enums

LapType_BIKE_RIDE == EnumVal("LapType", 1)

LapType_RUNNING == EnumVal("LapType", 2)

ActivityFileType == {"CSV", "GPX", "KML", "TCX", "FIT"}

\* The match statement of _export_activities_inner.
Extension(file_type) ==
  CASE file_type = "CSV" -> "csv"
    [] file_type = "FIT" -> "fit"
    [] file_type = "GPX" -> "gpx"
    [] file_type = "KML" -> "kml"
    [] file_type = "TCX" -> "tcx"

\* ------------------------------------------------------------------ server

\* The servers of the model: small ones whose every activity may misbehave, and
\* big, reliable ones around the pagination limit.
Servers ==
  {[count |-> c, flaky |-> c] : c \in 0..MaxFlaky}
  \cup {[count |-> c, flaky |-> 0] :
          c \in {ACTIVITY_PAGINATION_LIMIT, ACTIVITY_PAGINATION_LIMIT + 1,
                 2 * ACTIVITY_PAGINATION_LIMIT,
                 2 * ACTIVITY_PAGINATION_LIMIT + 50}}

\* Every activity of the server is an indoor run (sport type 101): the
\* modeList values that select the server's activities ("" selects all types).
ServerSelects(modeList) == modeList \in {"", "101", "101,104"}

\* The count the listing endpoint reports for a filter.
ServerCountFor(srv, modeList) == IF ServerSelects(modeList) THEN srv.count ELSE 0

\* dataList of page pageNumber at size entries per page.
ServerPage(srv, modeList, pageNumber, sz) ==
  LET n == ServerCountFor(srv, modeList) IN
  IF sz < 1 \/ pageNumber < 1 THEN <<>>
  ELSE Range((pageNumber - 1) * sz + 1, Min(pageNumber * sz, n))

HttpStatuses == {200, 404, 500}

\* requests.Response.raise_for_status: HTTPError on a 4xx or 5xx status.
raise_for_status_never(status) == "none"

raise_for_status(status) ==
  IF status >= 400 /\ status < 600 THEN "HTTPError" ELSE "none"

\* ------------------------------------------------------------- domain model

\* The required fields of Summary (model.py: every declared field, no default).
SummaryFields ==
  {"adjustedPace", "aerobicEffect", "aerobicEffectState", "anaerobicEffect",
   "anaerobicEffectState", "avgCadence", "avgHr", "avgMoveSpeed", "avgPace",
   "avgRunningEf", "avgSpeed", "avgStepLen", "calories", "currentVo2Max",
   "deviceSportMode", "distance", "endTimestamp", "maxCadence", "maxHr",
   "maxSpeed", "name", "sportMode", "sportType", "startTimestamp", "totalTime",
   "trainType", "trainingLoad", "workoutTime"}

\* The required fields of Lap.
LapFields ==
  {"avgCadence", "avgHr", "avgMoveSpeed", "avgPace", "avgPower", "avgSpeedV2",
   "avgStrideLength", "calories", "distance", "endTimestamp", "lapIndex",
   "rowIndex", "setIndex", "startTimestamp", "totalDistance"}

TimestampFields == {"startTimestamp", "endTimestamp"}

FrequencyFields == <<"cadence", "distance", "heart", "heartLevel", "timestamp">>

\* A datetime is an instant, in microseconds since 1970-01-01T00:00:00Z, and
\* the zone it is shown in.
\* datetime(1970, 1, 1, tzinfo=timezone.utc)
Epoch == [us |-> 0, tz |-> "UTC"]

\* timedelta(seconds=value / den), in microseconds: the whole seconds and
\* the fraction of a second.  timedelta rounds to the microsecond; value / 100
\* is a whole number of microseconds, so nothing is rounded here.
timedelta_seconds(value, den) ==
  (value \div den) * 1000000 + ((value % den) * 1000000) \div den

\* dt.astimezone(zone): the same instant, shown in zone.
astimezone(dt, zone) == [dt EXCEPT !.tz = zone]

\* convert_timestamp_to_datetime, had it read the value as whole seconds.
convert_timestamp_to_datetime_seconds(value) ==
  astimezone([Epoch EXCEPT !.us = @ + timedelta_seconds(value, 1)],
             "America/New_York")

\* convert_timestamp_to_datetime: epoch + value/100 seconds, shown in the
\* America/New_York zone.
convert_timestamp_to_datetime(value) ==
  astimezone([Epoch EXCEPT !.us = @ + timedelta_seconds(value, 100)],
             "America/New_York")

\* A pydantic model with extra="ignore" and only required fields, built from
\* the keyword arguments kv: ValidationError when a declared field is absent,
\* otherwise the declared fields alone, the timestamps converted.
BuildModel(fields, kv) ==
  IF ~(fields \subseteq DOMAIN kv)
  THEN [err |-> "ValidationError", val |-> None]
  ELSE [err |-> "none",
        val |-> [f \in fields |->
                   IF f \in TimestampFields
                   THEN convert_timestamp_to_datetime(kv[f])
                   ELSE kv[f]]]

\* get_summary_data: Summary(**data)
get_summary_data(data) == BuildModel(SummaryFields, data.kv)

\* SelectSeq without the operator argument: the values of field f of the
\* samples that have it.
RECURSIVE PresentValues(_, _)
PresentValues(data, f) ==
  IF Len(data) = 0 THEN <<>>
  ELSE (IF HasKey(data[1], f) THEN <<data[1].kv[f]>> ELSE <<>>)
       \o PresentValues(Tail(data), f)

\* get_activity_data, had it appended only the values present.
get_activity_data_present_only(data) ==
  [f \in {FrequencyFields[i] : i \in 1..Len(FrequencyFields)} |->
     PresentValues(data, f)]

\* get_activity_data: five parallel lists, 0 where a sample lacks the field.
get_activity_data(data) ==
  [f \in {FrequencyFields[i] : i \in 1..Len(FrequencyFields)} |->
     [i \in 1..Len(data) |-> DictGet(data[i], f, 0)]]

RECURSIVE BuildLaps(_)
\* [Lap(**lap) for lap in items], stopping at the first error.
BuildLaps(items) ==
  IF Len(items) = 0 THEN [err |-> "none", val |-> <<>>]
  ELSE LET lap == BuildModel(LapFields, items[1].kv) IN
       IF lap.err # "none" THEN lap
       ELSE LET rest == BuildLaps(Tail(items)) IN
            IF rest.err # "none" THEN rest
            ELSE [err |-> "none", val |-> <<lap.val>> \o rest.val]

RECURSIVE get_laps_data(_)
\* get_laps_data: the laps of the groups whose "type" == LapType.RUNNING.
get_laps_data(data) ==
  IF Len(data) = 0 THEN [err |-> "none", val |-> <<>>]
  ELSE LET item == data[1] IN
       IF ~HasKey(item, "type") THEN [err |-> "KeyError", val |-> None]
       ELSE LET head ==
                  IF PyEq(item.kv["type"], LapType_RUNNING)
                  THEN IF ~HasKey(item, "lapItemList")
                       THEN [err |-> "KeyError", val |-> None]
                       ELSE BuildLaps(item.kv["lapItemList"])
                  ELSE [err |-> "none", val |-> <<>>]
            IN IF head.err # "none" THEN head
               ELSE LET rest == get_laps_data(Tail(data)) IN
                    IF rest.err # "none" THEN rest
                    ELSE [err |-> "none", val |-> head.val \o rest.val]

\* TrainActivity(summary=..., data=..., laps=...) as _extract_data_inner builds
\* it from data_wrapped: the three subscripts and the three conversions are
\* evaluated in source order and the first error wins.
BuildTrainActivity(data_wrapped) ==
  IF ~HasKey(data_wrapped, "summary") THEN [err |-> "KeyError", val |-> None]
  ELSE LET summary == get_summary_data(data_wrapped.kv["summary"]) IN
  IF summary.err # "none" THEN summary
  ELSE IF ~HasKey(data_wrapped, "frequencyList")
  THEN [err |-> "KeyError", val |-> None]
  ELSE IF ~HasKey(data_wrapped, "lapList") THEN [err |-> "KeyError", val |-> None]
  ELSE LET laps == get_laps_data(data_wrapped.kv["lapList"]) IN
  IF laps.err # "none" THEN laps
  ELSE [err |-> "none",
        val |-> [summary |-> summary.val,
                 data |-> get_activity_data(data_wrapped.kv["frequencyList"]),
                 laps |-> laps.val]]

\* --------------------------------------------------- detail payloads (server)

\* The raw fields of a summary or a lap as the server sends them: every
\* declared field and one the model does not know.  "name" identifies the
\* activity: the server names activity id by its number.
RawFields(fields, id) ==
  [f \in fields \cup {"unknownField"} |->
     IF f = "name" THEN ToString(id)
     ELSE IF f \in TimestampFields THEN 100 * id
     ELSE 0]

Without(kv, k) == [f \in (DOMAIN kv) \ {k} |-> kv[f]]

RawLapList(id, lapkv) ==
  << Dict([type |-> IntVal(2), lapItemList |-> <<Dict(lapkv)>>]),
     Dict([type |-> IntVal(1), lapItemList |-> <<Dict(RawFields(LapFields, id))>>]) >>

RawFrequencyList == << Dict([cadence |-> 5]), Dict([heart |-> 90, timestamp |-> 7]) >>

FullData(id) ==
  [summary |-> Dict(RawFields(SummaryFields, id)),
   frequencyList |-> RawFrequencyList,
   lapList |-> RawLapList(id, RawFields(LapFields, id))]

\* The shapes of a detail response that valid_raw_activity_data must reject.
InvalidShapes == {"no_data", "data_null", "no_summary", "summary_null"}

\* The valid detail payloads: complete, or lacking something the normalizer
\* requires.
ValidShapes ==
  {"full", "no_frequencyList", "no_lapList", "summary_field_missing",
   "lap_field_missing"}

\* The JSON body of a detail response of a shape, for activity id.
DetailJson(shape, id) ==
  CASE shape = "no_data" -> Dict([message |-> "error"])
    [] shape = "data_null" -> Dict([data |-> None])
    [] shape = "no_summary" -> Dict([data |-> Dict([message |-> "error"])])
    [] shape = "summary_null" -> Dict([data |-> Dict([summary |-> None])])
    [] shape = "full" -> Dict([data |-> Dict(FullData(id))])
    [] shape = "no_frequencyList" ->
         Dict([data |-> Dict(Without(FullData(id), "frequencyList"))])
    [] shape = "no_lapList" ->
         Dict([data |-> Dict(Without(FullData(id), "lapList"))])
    [] shape = "summary_field_missing" ->
         Dict([data |-> Dict([FullData(id) EXCEPT
                 !.summary = Dict(Without(RawFields(SummaryFields, id), "name"))])])
    [] shape = "lap_field_missing" ->
         Dict([data |-> Dict([FullData(id) EXCEPT
                 !.lapList = RawLapList(id, Without(RawFields(LapFields, id),
                                                    "lapIndex"))])])

\* valid_raw_activity_data, had it asked only for the data envelope.
valid_raw_activity_data_envelope_only(resp_json) ==
  IF HasKey(resp_json, "data") THEN "True" ELSE "False"

\* valid_raw_activity_data: resp_json.get("data", {}).get("summary") is not None.
\* "True" or "False", or the error the expression raises: None has no get.
valid_raw_activity_data(resp_json) ==
  LET data == DictGet(resp_json, "data", EmptyDict) IN
  IF data.t # "dict" THEN "AttributeError"
  ELSE IF IsNone(DictGet(data, "summary", None)) THEN "False"
  ELSE "True"

\* ------------------------------------------------------------------- state

VARIABLES
  server,            \* the server this run talks to: [count, flaky]
  activities,        \* self.activities: None, or the list of TrainActivity
  call,              \* the public method called: its name and arguments
  pc,                \* where the call is: idle, list_start, list_pages, loop,
                     \* fetch, normalize, export_request, download, done, raised
  raised,            \* the exception that left the call ("none": none)
  raised_at,         \* the step it was raised in
  result,            \* the value the call returned
  limit,             \* get_activities: limit
  activity_types,    \* get_activities: activity_types
  total_activities,  \* _get_activities_inner: total_activities
  size,              \* _get_activities_inner: payload["size"]
  num_pages,         \* _get_activities_inner: num_pages
  page_number,       \* _get_activities_inner: page_number
  datalist,          \* _get_activities_inner: datalist
  list_requests,     \* the listing requests issued, with the status each got
  entries,           \* the orchestrator's activities (the listing's result)
  idx,               \* the orchestrator's position in entries
  skipped,           \* what the orchestrator logged: [entry, why]
  activity,          \* get_raw_activity_data: activity
  max_tries,         \* get_raw_activity_data: max_tries
  retries_left,      \* get_raw_activity_data: retries_left
  events,            \* the requests and sleeps of this get_raw_activity_data
  resp_json,         \* get_raw_activity_data: resp_json, with its serial number
  export_requests,   \* labelIds whose export URL was requested
  downloads,         \* labelIds whose file download was requested
  files,             \* the files written under exports/
  access_token,      \* self.access_token
  user_id,           \* self.user_id
  login_log,         \* the login requests issued, with the answer each got
  sessions,          \* requests.Session objects: how many opened, which open
  http_calls,        \* the kinds of HTTP call issued, with the timeout passed
  err_msg,           \* get_raw_activity_data: err_msg of the RuntimeError
  json_out           \* what to_json did: None before it is called

objVars == <<server, activities>>

ctlVars == <<call, pc, raised, raised_at, result>>

listVars ==
  <<limit, activity_types, total_activities, size, num_pages, page_number,
    datalist, list_requests>>

loopVars == <<entries, idx, skipped>>

fetchVars == <<activity, max_tries, retries_left, events, resp_json>>

exportVars == <<export_requests, downloads, files>>

authVars == <<access_token, user_id, login_log>>

vars ==
  <<objVars, ctlVars, listVars, loopVars, fetchVars, exportVars, authVars,
    sessions, http_calls, err_msg, json_out>>

\* ------------------------------------------------------------------ inputs

ListVal(seq) == [t |-> "list", v |-> seq]

\* The limits get_activities is called with.
Limits ==
  {None} \cup {IntVal(n) : n \in {-1, 0, 1, 2, 199, 200, 201, 400, 401, 450}}

\* The activity_types get_activities is called with.
TypeArgs ==
  {None, ListVal(<<>>), ListVal(<<101>>), ListVal(<<104>>), ListVal(<<101, 104>>)}

\* TrainActivities: the collection, a list of TrainActivity.
TrainActivities(root) == [t |-> "TrainActivities", root |-> root]

\* add_activity, had it put the activity first.
add_activity_first(acts, a) == TrainActivities(<<a>> \o acts.root)

\* TrainActivities.add_activity: self.root.append(activity)
add_activity(acts, a) == TrainActivities(Append(acts.root, a))

NoCall == [name |-> "none", limit |-> None, activity_types |-> None,
           max_tries |-> 0, file_type |-> "none", data |-> None]

Init ==
  /\ server \in Servers
  /\ activities = None
  /\ call = NoCall
  /\ pc = "idle"
  /\ raised = "none"
  /\ raised_at = "none"
  /\ result = None
  /\ limit = None
  /\ activity_types = None
  /\ total_activities = 0
  /\ size = 0
  /\ num_pages = 0
  /\ page_number = 0
  /\ datalist = <<>>
  /\ list_requests = <<>>
  /\ entries = <<>>
  /\ idx = 0
  /\ skipped = <<>>
  /\ activity = 0
  /\ max_tries = 0
  /\ retries_left = 0
  /\ events = <<>>
  /\ resp_json = None
  /\ export_requests = <<>>
  /\ downloads = <<>>
  /\ files = <<>>
  /\ access_token = None
  /\ user_id = None
  /\ login_log = <<>>
  /\ sessions = [opened |-> 0, open |-> {}]
  /\ http_calls = {}
  /\ err_msg = None
  /\ json_out = None

\* An exception exc leaves the call from step at.
Raise(exc, at) ==
  /\ pc' = "raised"
  /\ raised' = exc
  /\ raised_at' = at
  /\ result' = None
  /\ call' = call

\* ------------------------------------------------- sessions and HTTP calls

\* requests.Session(): one more session, and it is open.
OpenSession(s, name) ==
  [opened |-> s.opened + 1, open |-> s.open \cup {name}]

\* Leaving a with block closes the sessions it opened.
CloseSessionsLeak(s, names) == s

CloseSessions(s, names) == [s EXCEPT !.open = @ \ names]

\* A public call is one or more with blocks around an inner method: when the
\* call returns or raises, every with block still entered is left.
WithExit ==
  sessions' = IF pc' \in {"done", "raised"}
              THEN CloseSessions(sessions, sessions.open)
              ELSE sessions

\* The timeout the calls pass: timeout=API_TIMEOUT.
API_TIMEOUT == "API_TIMEOUT"

\* An HTTP call to endpoint, with the timeout argument it passes ("none":
\* the call passes no timeout, and requests then waits without limit).
HttpCall(endpoint, timeout) == [endpoint |-> endpoint, timeout |-> timeout]

\* No public call is started once to_json has run: to_json ends the program.
Idle == pc = "idle" /\ IsNone(json_out)

\* ----------------------------------------------------------- public calls

\* get_activities(limit, activity_types)
CallGetActivities ==
  /\ Idle
  /\ \E lim \in Limits, types \in TypeArgs :
       /\ call' = [NoCall EXCEPT !.name = "get_activities", !.limit = lim,
                                 !.activity_types = types]
       /\ limit' = lim
       /\ activity_types' = types
  /\ pc' = "list_start"
  /\ sessions' = OpenSession(sessions, "get_activities.session")
  /\ UNCHANGED <<raised, raised_at, result, total_activities, size, num_pages,
                 page_number, datalist, list_requests>>
  /\ UNCHANGED <<objVars, loopVars, fetchVars, exportVars>>
  /\ UNCHANGED <<authVars, http_calls, err_msg, json_out>>

\* The first retries_left, had the loop always run at least once.
FirstRetriesLeftAtLeastOnce(n) == IF n >= 1 THEN n - 1 ELSE 0

\* range(max_tries - 1, -1, -1): its first value, below 0 for an empty range.
FirstRetriesLeft(n) == n - 1

\* get_raw_activity_data(session, activity, max_tries): the loop starts with
\* retries_left = max_tries - 1.
CallGetRawActivityData ==
  /\ Idle
  /\ \E n \in -1..MaxTriesArg :
       /\ call' = [NoCall EXCEPT !.name = "get_raw_activity_data", !.max_tries = n]
       /\ max_tries' = n
       /\ retries_left' = FirstRetriesLeft(n)
  /\ activity' = 1
  /\ pc' = "fetch"
  /\ UNCHANGED <<raised, raised_at, result, events, resp_json>>
  /\ UNCHANGED <<objVars, listVars, loopVars, exportVars>>
  /\ UNCHANGED <<authVars, sessions, http_calls, err_msg, json_out>>

\* extract_data(): _extract_data_inner calls self.get_activities(), whose
\* parameters take their defaults.
CallExtractData ==
  /\ Idle
  /\ call' = [NoCall EXCEPT !.name = "extract_data"]
  /\ limit' = IntVal(DEFAULT_ACTIVITY_LIMIT)
  /\ activity_types' = None
  /\ pc' = "list_start"
  /\ sessions' = OpenSession(OpenSession(sessions, "extract_data.session"),
                             "get_activities.session")
  /\ UNCHANGED <<raised, raised_at, result, total_activities, size, num_pages,
                 page_number, datalist, list_requests>>
  /\ UNCHANGED <<objVars, loopVars, fetchVars, exportVars>>
  /\ UNCHANGED <<authVars, http_calls, err_msg, json_out>>

\* export_activities(file_type): _export_activities_inner picks the extension
\* and calls self.get_activities(), whose parameters take their defaults.
CallExportActivities ==
  /\ Idle
  /\ \E ft \in ActivityFileType :
       call' = [NoCall EXCEPT !.name = "export_activities", !.file_type = ft]
  /\ limit' = IntVal(DEFAULT_ACTIVITY_LIMIT)
  /\ activity_types' = None
  /\ pc' = "list_start"
  /\ sessions' = OpenSession(OpenSession(OpenSession(sessions,
                      "export_activities.dl_session"),
                      "export_activities.query_session"),
                      "get_activities.session")
  /\ UNCHANGED <<raised, raised_at, result, total_activities, size, num_pages,
                 page_number, datalist, list_requests>>
  /\ UNCHANGED <<objVars, loopVars, fetchVars, exportVars>>
  /\ UNCHANGED <<authVars, http_calls, err_msg, json_out>>

\* ------------------------------------------------------------------ lister

\* mode_list: "" for None, else the comma-joined codes.
ModeList(types) == IF IsNone(types) THEN "" ELSE Join(",", types.v)

\* payload["size"] = min(limit, ACTIVITY_PAGINATION_LIMIT)
PageSizeUncapped(lim) == lim

PageSize(lim) == Min(lim, ACTIVITY_PAGINATION_LIMIT)

\* num_pages = math.ceil(total_activities / limit)
NumPagesFloor(total, lim) == total \div lim

NumPages(total, lim) == CeilDiv(total, lim)

ListRequest(pageNumber, sz, status) ==
  [modeList |-> ModeList(activity_types), pageNumber |-> pageNumber,
   size |-> sz, status |-> status]

\* _get_activities_inner up to its loop: with limit None, the count query; then
\* the page size and the number of pages.
ListStart ==
  /\ pc = "list_start"
  /\ \E status \in HttpStatuses :
       LET discover == IsNone(limit)
           failed == discover /\ raise_for_status(status) # "none"
           lim == IF discover THEN ACTIVITY_PAGINATION_LIMIT ELSE limit.v
           total == IF discover
                    THEN ServerCountFor(server, ModeList(activity_types))
                    ELSE limit.v
       IN
       /\ ~discover => status = 200
       /\ list_requests' = IF discover THEN <<ListRequest(1, 1, status)>> ELSE <<>>
       /\ IF failed
          THEN /\ Raise("HTTPError", "list_start")
               /\ UNCHANGED <<limit, total_activities, size, num_pages,
                              page_number>>
          ELSE /\ limit' = IntVal(lim)
               /\ total_activities' = total
               /\ size' = PageSize(lim)
               /\ IF lim = 0
                  THEN /\ Raise("ZeroDivisionError", "list_start")
                       /\ UNCHANGED <<num_pages, page_number>>
                  ELSE /\ num_pages' = NumPages(total, lim)
                       /\ page_number' = 1
                       /\ pc' = "list_pages"
                       /\ UNCHANGED <<call, raised, raised_at, result>>
  /\ http_calls' = IF IsNone(limit)
                    THEN http_calls \cup {HttpCall("listing", API_TIMEOUT)}
                    ELSE http_calls
  /\ WithExit
  /\ UNCHANGED <<activity_types, datalist>>
  /\ UNCHANGED <<objVars, loopVars, fetchVars, exportVars>>
  /\ UNCHANGED <<authVars, err_msg, json_out>>

\* One iteration of the page loop: the request, raise_for_status, extend.
ListPage ==
  /\ pc = "list_pages"
  /\ page_number <= num_pages
  /\ \E status \in HttpStatuses :
       /\ list_requests' = Append(list_requests, ListRequest(page_number, size, status))
       /\ IF raise_for_status(status) # "none"
          THEN /\ Raise("HTTPError", "list_pages")
               /\ UNCHANGED <<datalist, page_number>>
          ELSE /\ datalist' = datalist \o ServerPage(server, ModeList(activity_types),
                                                     page_number, size)
               /\ page_number' = page_number + 1
               /\ UNCHANGED ctlVars
  /\ http_calls' = http_calls \cup {HttpCall("listing", API_TIMEOUT)}
  /\ WithExit
  /\ UNCHANGED <<limit, activity_types, total_activities, size, num_pages>>
  /\ UNCHANGED <<objVars, loopVars, fetchVars, exportVars>>
  /\ UNCHANGED <<authVars, err_msg, json_out>>

\* The page loop is over: get_activities returns datalist.  In extract_data the
\* collection is then initialized; both orchestrators start their loop.
ListReturn ==
  /\ pc = "list_pages"
  /\ page_number > num_pages
  /\ IF call.name = "get_activities"
     THEN /\ pc' = "done"
          /\ result' = ListVal(datalist)
          /\ UNCHANGED <<activities, entries, idx>>
     ELSE /\ pc' = "loop"
          /\ result' = result
          /\ activities' = IF call.name = "extract_data"
                          THEN TrainActivities(<<>>)
                          ELSE activities
          /\ entries' = datalist
          /\ idx' = 1
  /\ sessions' = CloseSessions(sessions, {"get_activities.session"})
  /\ UNCHANGED <<server, call, raised, raised_at, skipped>>
  /\ UNCHANGED <<listVars, fetchVars, exportVars>>
  /\ UNCHANGED <<authVars, http_calls, err_msg, json_out>>

\* ---------------------------------------------------------- detail fetcher

\* What one detail request can come to: an exception out of
\* _get_raw_activity_data_inner (the transport's, or raise_for_status's), or a
\* JSON body of one of the shapes.  Reliable activities answer in full.
Outcomes(act) ==
  IF call.name = "get_raw_activity_data" \/ act <= server.flaky
  THEN {"transport_error"} \cup InvalidShapes \cup ValidShapes
  ELSE {"full"}

RequestEvent(outcome) == [ev |-> "request", outcome |-> outcome]

SleepEvent == [ev |-> "sleep", outcome |-> "-"]

NumRequests(evs) == Cardinality({i \in 1..Len(evs) : evs[i].ev = "request"})

NumSleeps(evs) == Cardinality({i \in 1..Len(evs) : evs[i].ev = "sleep"})

\* The response object of the next request: its serial number tells it from
\* the other responses of the call.
Response(outcome, act) ==
  [t |-> "resp", serial |-> NumRequests(events) + 1, shape |-> outcome,
   json |-> DetailJson(outcome, act)]

\* if retries_left: time.sleep(wait_between_retries)
SleepAfter(left) == IF left # 0 THEN <<SleepEvent>> ELSE <<>>

\* The exceptions the orchestrators catch around get_raw_activity_data:
\* except (requests.RequestException, RuntimeError).
CaughtAroundFetch == {"RequestException", "RuntimeError"}

\* get_raw_activity_data returns resp to its caller.
FetchReturns(resp) ==
  /\ raised' = raised
  /\ raised_at' = raised_at
  /\ call' = call
  /\ IF call.name = "get_raw_activity_data"
     THEN pc' = "done" /\ result' = resp
     ELSE /\ pc' = IF call.name = "extract_data" THEN "normalize"
                   ELSE "export_request"
          /\ result' = result
  /\ UNCHANGED loopVars

\* exc leaves get_raw_activity_data: an orchestrator logs and goes on to the
\* next entry when its except clause names exc, and lets it through otherwise.
FetchRaises(exc) ==
  IF call.name # "get_raw_activity_data" /\ exc \in CaughtAroundFetch
  THEN /\ pc' = "loop"
       /\ skipped' = Append(skipped, [entry |-> activity, why |-> exc])
       /\ idx' = idx + 1
       /\ UNCHANGED <<call, raised, raised_at, result, entries>>
  ELSE /\ Raise(exc, "fetch")
       /\ UNCHANGED loopVars

\* One iteration of the retry loop: the request; a valid payload is returned;
\* an exception of the request or a payload found invalid is logged and, with
\* retries left, followed by a sleep.  valid_raw_activity_data runs in the
\* else clause of the try: what it raises is not caught here.
FetchAttempt ==
  /\ pc = "fetch"
  /\ retries_left >= 0
  /\ \E outcome \in Outcomes(activity) :
       LET resp == Response(outcome, activity)
           verdict == IF outcome = "transport_error" THEN "exception"
                      ELSE valid_raw_activity_data(resp.json)
       IN
       IF verdict = "True"
       THEN /\ events' = Append(events, RequestEvent(outcome))
            /\ resp_json' = resp
            /\ retries_left' = retries_left
            /\ FetchReturns(resp)
       ELSE IF verdict \notin {"exception", "False"}
       THEN /\ events' = Append(events, RequestEvent(outcome))
            /\ resp_json' = resp
            /\ retries_left' = retries_left
            /\ FetchRaises(verdict)
       ELSE /\ events' = Append(events, RequestEvent(outcome)) \o SleepAfter(retries_left)
            /\ resp_json' = IF verdict = "exception" THEN resp_json ELSE resp
            /\ retries_left' = retries_left - 1
            /\ UNCHANGED <<ctlVars, loopVars>>
  /\ http_calls' = http_calls \cup {HttpCall("detail", API_TIMEOUT)}
  /\ WithExit
  /\ UNCHANGED <<activity, max_tries>>
  /\ UNCHANGED <<objVars, listVars, exportVars>>
  /\ UNCHANGED <<authVars, err_msg, json_out>>

\* err_msg: the endpoint and the number of attempts the message gives.
ErrMsg ==
  [url |-> "ACTIVITY_DETAILS_URL", attempts |-> MAX_TRIES]

\* The loop is over without a return: raise RuntimeError(err_msg).
FetchExhausted ==
  /\ pc = "fetch"
  /\ retries_left < 0
  /\ err_msg' = ErrMsg
  /\ FetchRaises("RuntimeError")
  /\ WithExit
  /\ UNCHANGED <<objVars, listVars, fetchVars, exportVars>>
  /\ UNCHANGED <<authVars, http_calls, json_out>>

\* ----------------------------------------------------------- orchestrators

\* The loop of an orchestrator takes the next entry and calls
\* get_raw_activity_data with the default max_tries.
LoopFetch ==
  /\ pc = "loop"
  /\ idx <= Len(entries)
  /\ activity' = entries[idx]
  /\ max_tries' = MAX_TRIES
  /\ retries_left' = FirstRetriesLeft(MAX_TRIES)
  /\ events' = <<>>
  /\ resp_json' = None
  /\ pc' = "fetch"
  /\ UNCHANGED <<call, raised, raised_at, result>>
  /\ UNCHANGED <<objVars, listVars, loopVars, exportVars>>
  /\ UNCHANGED <<authVars, sessions, http_calls, err_msg, json_out>>

\* The loop of an orchestrator is over: the call returns None.
LoopDone ==
  /\ pc = "loop"
  /\ idx > Len(entries)
  /\ pc' = "done"
  /\ result' = None
  /\ WithExit
  /\ UNCHANGED <<call, raised, raised_at>>
  /\ UNCHANGED <<objVars, listVars, loopVars, fetchVars, exportVars>>
  /\ UNCHANGED <<authVars, http_calls, err_msg, json_out>>

\* _extract_data_inner builds the models of the payload: KeyError is logged
\* and the entry left out, any other error leaves the call, and the activity
\* built is added to the collection.
ExtractNormalize ==
  /\ pc = "normalize"
  /\ LET built == BuildTrainActivity(resp_json.json.kv["data"]) IN
     IF built.err = "none"
     THEN /\ activities' = add_activity(activities, built.val)
          /\ pc' = "loop"
          /\ idx' = idx + 1
          /\ UNCHANGED <<call, raised, raised_at, result, entries, skipped>>
     ELSE IF built.err = "KeyError"
     THEN /\ skipped' = Append(skipped, [entry |-> activity, why |-> "KeyError"])
          /\ pc' = "loop"
          /\ idx' = idx + 1
          /\ UNCHANGED <<call, raised, raised_at, result, entries, activities>>
     ELSE /\ Raise(built.err, "normalize")
          /\ UNCHANGED <<loopVars, activities>>
  /\ WithExit
  /\ UNCHANGED <<server, listVars, fetchVars, exportVars>>
  /\ UNCHANGED <<authVars, http_calls, err_msg, json_out>>

\* What the export URL request can come to, for an activity.
ExportAnswers(act) ==
  IF act <= server.flaky
  THEN {[status |-> st, has_data |-> d] : st \in HttpStatuses, d \in BOOLEAN}
  ELSE {[status |-> 200, has_data |-> TRUE]}

\* What the file download can come to: a response, or the transport's error.
DownloadAnswers(act) ==
  IF act <= server.flaky THEN {"response", "ConnectionError"} ELSE {"response"}

\* The file name _export_activities_inner composes.
Filename(summary, label_id, extension) ==
  [start |-> summary.startTimestamp, name |-> summary.name,
   label_id |-> label_id, extension |-> extension]

\* _export_activities_inner after the detail fetch: the summary is decoded, the
\* export URL requested; a response without "data" is logged and the entry
\* skipped.
ExportRequest ==
  /\ pc = "export_request"
  /\ LET summary == get_summary_data(resp_json.json.kv["data"].kv["summary"]) IN
     IF summary.err # "none"
     THEN /\ Raise(summary.err, "export_summary")
          /\ UNCHANGED <<loopVars, export_requests, http_calls>>
     ELSE \E ans \in ExportAnswers(activity) :
            /\ export_requests' = Append(export_requests, activity)
            /\ http_calls' = http_calls \cup {HttpCall("export", "none")}
            /\ IF raise_for_status(ans.status) # "none"
               THEN /\ Raise("HTTPError", "export_request")
                    /\ UNCHANGED loopVars
               ELSE IF ~ans.has_data
               THEN /\ skipped' = Append(skipped, [entry |-> activity,
                                                   why |-> "unavailable"])
                    /\ pc' = "loop"
                    /\ idx' = idx + 1
                    /\ UNCHANGED <<call, raised, raised_at, result, entries>>
               ELSE /\ pc' = "download"
                    /\ UNCHANGED <<call, raised, raised_at, result, loopVars>>
  /\ WithExit
  /\ UNCHANGED <<downloads, files>>
  /\ UNCHANGED <<objVars, listVars, fetchVars>>
  /\ UNCHANGED <<authVars, err_msg, json_out>>

\* The file is downloaded and written under exports/.
ExportDownload ==
  /\ pc = "download"
  /\ \E ans \in DownloadAnswers(activity) :
       /\ downloads' = Append(downloads, activity)
       /\ IF ans # "response"
          THEN /\ Raise(ans, "download")
               /\ UNCHANGED <<loopVars, files>>
          ELSE /\ files' = Append(files,
                      Filename(get_summary_data(
                                 resp_json.json.kv["data"].kv["summary"]).val,
                               activity, Extension(call.file_type)))
               /\ pc' = "loop"
               /\ idx' = idx + 1
               /\ UNCHANGED <<call, raised, raised_at, result, entries, skipped>>
  /\ http_calls' = http_calls \cup {HttpCall("download", "none")}
  /\ WithExit
  /\ UNCHANGED export_requests
  /\ UNCHANGED <<objVars, listVars, fetchVars>>
  /\ UNCHANGED <<authVars, err_msg, json_out>>

\* ------------------------------------------------------------------- login

StrVal(str) == [t |-> "str", v |-> str]

\* The bodies the login endpoint answers with: the token and the user id in a
\* data envelope, or a body that lacks the envelope, has a null one, or lacks
\* one of the two.
LoginShapes == {"ok", "no_data", "data_null", "no_accessToken", "no_userId"}

LoginJson(shape) ==
  LET data == [accessToken |-> StrVal("token"), userId |-> StrVal("user")] IN
  CASE shape = "ok" -> Dict([data |-> Dict(data)])
    [] shape = "no_data" -> Dict([message |-> StrVal("error")])
    [] shape = "data_null" -> Dict([data |-> None])
    [] shape = "no_accessToken" -> Dict([data |-> Dict(Without(data, "accessToken"))])
    [] shape = "no_userId" -> Dict([data |-> Dict(Without(data, "userId"))])

\* d[key], had it been d.get(key).
SubscriptOrNone(d, key) ==
  IF d.t = "dict" /\ HasKey(d, key)
  THEN [err |-> "none", val |-> d.kv[key]]
  ELSE [err |-> "none", val |-> None]

\* d[key]: KeyError when the dict lacks the key, TypeError when d is None.
Subscript(d, key) ==
  IF d.t # "dict" THEN [err |-> "TypeError", val |-> None]
  ELSE IF ~HasKey(d, key) THEN [err |-> "KeyError", val |-> None]
  ELSE [err |-> "none", val |-> d.kv[key]]

\* login(account, password): one POST, raise_for_status, then the three
\* subscripts and the two assignments in source order.
Login ==
  /\ Idle
  /\ call' = [NoCall EXCEPT !.name = "login"]
  /\ http_calls' = http_calls \cup {HttpCall("login", API_TIMEOUT)}
  /\ \E status \in HttpStatuses, shape \in LoginShapes :
       LET data_wrapped == Subscript(LoginJson(shape), "data")
           token == Subscript(data_wrapped.val, "accessToken")
           user == Subscript(data_wrapped.val, "userId")
       IN
       /\ login_log' = Append(login_log, [status |-> status, shape |-> shape])
       /\ IF raise_for_status(status) # "none"
          THEN /\ pc' = "raised" /\ raised' = "HTTPError"
               /\ UNCHANGED <<access_token, user_id>>
          ELSE IF data_wrapped.err # "none"
          THEN /\ pc' = "raised" /\ raised' = data_wrapped.err
               /\ UNCHANGED <<access_token, user_id>>
          ELSE IF token.err # "none"
          THEN /\ pc' = "raised" /\ raised' = token.err
               /\ UNCHANGED <<access_token, user_id>>
          ELSE /\ access_token' = token.val
               /\ IF user.err # "none"
                  THEN /\ pc' = "raised" /\ raised' = user.err
                       /\ user_id' = user_id
                  ELSE /\ pc' = "done" /\ raised' = raised
                       /\ user_id' = user.val
  /\ raised_at' = IF pc' = "raised" THEN "login" ELSE raised_at
  /\ result' = None
  /\ UNCHANGED <<objVars, listVars, loopVars, fetchVars, exportVars>>
  /\ UNCHANGED <<sessions, err_msg, json_out>>

\* ----------------------------------------------------------------- to_json

\* The offset from UTC of a zone, in seconds: America/New_York is on EST,
\* five hours behind, at the instants of the model (January 1970).
UtcOffset(tz) == IF tz = "UTC" THEN 0 ELSE (0 - 5) * 3600

\* serialize_dt: dt.isoformat(), the wall clock of dt's zone (its seconds
\* and the microseconds of the second) and the zone's offset.
serialize_dt(dt) ==
  [t |-> "isoformat",
   wall_s |-> (dt.us \div 1000000) + UtcOffset(dt.tz),
   wall_us |-> dt.us % 1000000,
   utcoffset |-> UtcOffset(dt.tz)]

\* model_dump of a Summary or a Lap: the timestamps through serialize_dt.
DumpModel(m) ==
  [f \in DOMAIN m |-> IF f \in TimestampFields THEN serialize_dt(m[f]) ELSE m[f]]

\* self.activities.model_dump(): the list of the dumped activities.
model_dump(root) ==
  [i \in 1..Len(root) |->
     [summary |-> DumpModel(root[i].summary),
      data |-> root[i].data,
      laps |-> [k \in 1..Len(root[i].laps) |-> DumpModel(root[i].laps[k])]]]

\* to_json, had it also written nothing for an empty collection.
to_json_file_unless_empty(acts) ==
  IF IsNone(acts) \/ acts = TrainActivities(<<>>) THEN None
  ELSE [t |-> "file", name |-> "activities.json", json |-> model_dump(acts.root)]

\* The file to_json writes: none when self.activities is None, else the dump
\* of the collection.
to_json_file(acts) ==
  IF IsNone(acts) THEN None
  ELSE [t |-> "file", name |-> "activities.json", json |-> model_dump(acts.root)]

\* to_json(): called before any other call, or after one has returned or
\* raised.
ToJson ==
  /\ pc \in {"idle", "done", "raised"}
  /\ IsNone(json_out)
  /\ json_out' = [t |-> "to_json", raised |-> "none",
                  file |-> to_json_file(activities)]
  /\ UNCHANGED <<objVars, ctlVars, listVars, loopVars, fetchVars, exportVars>>
  /\ UNCHANGED <<authVars, sessions, http_calls, err_msg>>

\* ------------------------------------------------------ static normalizers

\* A lap as the API sends it, told from the others by its lapIndex.
RawLap(k) == Dict([RawFields(LapFields, k) EXCEPT !["lapIndex"] = k])

\* A group of a lapList: its type code and its lap items.
LapGroup(type, items) == Dict([type |-> type, lapItemList |-> items])

\* The groups get_laps_data is called with: running groups (type code 2) of
\* two, one and no laps, and a bike ride group (type code 1).
LapGroupInputs ==
  {LapGroup(IntVal(2), <<RawLap(1), RawLap(2)>>),
   LapGroup(IntVal(1), <<RawLap(3)>>),
   LapGroup(IntVal(2), <<RawLap(3)>>),
   LapGroup(IntVal(2), <<>>)}

\* The lapLists get_laps_data is called with.
LapListInputs ==
  UNION {[1..n -> LapGroupInputs] : n \in 0..MaxGroups}

\* A static normalizer returns r.val, or raises r.err.
NormalizerReturns(r, val) ==
  IF r.err = "none"
  THEN /\ pc' = "done"
       /\ result' = val
       /\ UNCHANGED <<raised, raised_at>>
  ELSE /\ pc' = "raised"
       /\ raised' = r.err
       /\ raised_at' = "normalizer"
       /\ result' = None

\* The samples get_activity_data is called with: none, one, two or all of the
\* five fields, and a field the model does not know.
SampleInputs ==
  {Dict([unknownField |-> 9]),
   Dict([cadence |-> 5]),
   Dict([heart |-> 90, timestamp |-> 7]),
   Dict([cadence |-> 1, distance |-> 2, heart |-> 3, heartLevel |-> 4,
         timestamp |-> 5]),
   Dict([distance |-> 30, heartLevel |-> 2, unknownField |-> 9])}

\* The frequencyLists get_activity_data is called with.
FrequencyListInputs ==
  UNION {[1..n -> SampleInputs] : n \in 0..MaxSamples}

\* CorosDataExtractor.get_activity_data(data)
CallGetActivityData ==
  /\ Idle
  /\ \E data \in FrequencyListInputs :
       /\ call' = [NoCall EXCEPT !.name = "get_activity_data",
                                 !.data = ListVal(data)]
       /\ pc' = "done"
       /\ result' = get_activity_data(data)
  /\ UNCHANGED <<raised, raised_at>>
  /\ UNCHANGED <<objVars, listVars, loopVars, fetchVars, exportVars>>
  /\ UNCHANGED <<authVars, sessions, http_calls, err_msg, json_out>>

\* The raw timestamps the models are built with, in hundredths of a second.
TimestampInputs == {0 - 150, 0, 1, 100, 150, 12345}

\* The keyword arguments Summary and Lap are built with: every field, the two
\* timestamps drawn from TimestampInputs; or the same without one field.
ModelInputs(fields) ==
  {[RawFields(fields, 1) EXCEPT !["startTimestamp"] = r1, !["endTimestamp"] = r2] :
     r1 \in TimestampInputs, r2 \in TimestampInputs}
  \cup {Without(RawFields(fields, 1), "calories")}

\* CorosDataExtractor.get_summary_data(data)
CallGetSummaryData ==
  /\ Idle
  /\ \E kv \in ModelInputs(SummaryFields) :
       /\ call' = [NoCall EXCEPT !.name = "get_summary_data", !.data = Dict(kv)]
       /\ LET summary == get_summary_data(Dict(kv)) IN
          NormalizerReturns(summary, summary.val)
  /\ UNCHANGED <<objVars, listVars, loopVars, fetchVars, exportVars>>
  /\ UNCHANGED <<authVars, sessions, http_calls, err_msg, json_out>>

\* Lap(**lap)
CallLap ==
  /\ Idle
  /\ \E kv \in ModelInputs(LapFields) :
       /\ call' = [NoCall EXCEPT !.name = "Lap", !.data = Dict(kv)]
       /\ LET lap == BuildModel(LapFields, kv) IN
          NormalizerReturns(lap, lap.val)
  /\ UNCHANGED <<objVars, listVars, loopVars, fetchVars, exportVars>>
  /\ UNCHANGED <<authVars, sessions, http_calls, err_msg, json_out>>

\* CorosDataExtractor.get_laps_data(data)
CallGetLapsData ==
  /\ Idle
  /\ \E data \in LapListInputs :
       /\ call' = [NoCall EXCEPT !.name = "get_laps_data", !.data = ListVal(data)]
       /\ LET laps == get_laps_data(data) IN
          NormalizerReturns(laps, ListVal(laps.val))
  /\ UNCHANGED <<objVars, listVars, loopVars, fetchVars, exportVars>>
  /\ UNCHANGED <<authVars, sessions, http_calls, err_msg, json_out>>

\* --------------------------------------------------------- specification

Next ==
  \/ CallGetActivities
  \/ CallGetRawActivityData
  \/ CallExtractData
  \/ CallExportActivities
  \/ ListStart
  \/ ListPage
  \/ ListReturn
  \/ FetchAttempt
  \/ FetchExhausted
  \/ LoopFetch
  \/ LoopDone
  \/ ExtractNormalize
  \/ ExportRequest
  \/ ExportDownload
  \/ Login
  \/ ToJson
  \/ CallGetLapsData
  \/ CallGetActivityData
  \/ CallGetSummaryData
  \/ CallLap

Spec == Init /\ [][Next]_vars

\* ------------------------------------------------------ claims: vocabulary

IsRequest(e) == e.ev = "request"

\* The outcomes of the detail requests of the current get_raw_activity_data.
RequestOutcomes == [i \in 1..NumRequests(events) |-> SelectSeq(events, IsRequest)[i].outcome]

\* An attempt fails when its request raised or its payload has no non-null
\* data.summary.
FailedOutcome(o) == o = "transport_error" \/ o \in InvalidShapes

\* A response body whose data envelope holds a non-null summary.
HasNonNullSummary(json) ==
  /\ HasKey(json, "data")
  /\ json.kv["data"].t = "dict"
  /\ HasKey(json.kv["data"], "summary")
  /\ ~IsNone(json.kv["data"].kv["summary"])

\* The number of pages of n entries at per entries a page, n >= 0, per >= 1.
ExpectedPages(n, per) ==
  CHOOSE k \in 0..n : k * per >= n /\ (k = 0 \/ (k - 1) * per < n)

RECURSIVE ConcatPages(_, _, _)
\* The server's pages 1..k for a filter, at per entries a page, in order.
ConcatPages(modeList, k, per) ==
  IF k = 0 THEN <<>>
  ELSE ConcatPages(modeList, k - 1, per) \o ServerPage(server, modeList, k, per)

Ok(status) == status >= 200 /\ status < 300

DirectFetch == call.name = "get_raw_activity_data"

DirectList == call.name = "get_activities"

Orchestrated == call.name \in {"extract_data", "export_activities"}

\* The names of the activities of the collection, in order.
CollectedNames == [i \in 1..Len(activities.root) |-> activities.root[i].summary.name]

SkippedEntries == {skipped[i].entry : i \in 1..Len(skipped)}

IsKept(e) == e \notin SkippedEntries

\* A valid detail payload that lacks something the normalizer requires: the
\* frequencyList or lapList key, a Summary field, or a field of a lap of a
\* running group (lap type code 2).
MissingRequired(json) ==
  LET d == json.kv["data"] IN
  \/ ~HasKey(d, "frequencyList")
  \/ ~HasKey(d, "lapList")
  \/ ~(SummaryFields \subseteq DOMAIN d.kv["summary"].kv)
  \/ /\ HasKey(d, "lapList")
     /\ \E g \in 1..Len(d.kv["lapList"]) :
          LET grp == d.kv["lapList"][g] IN
          /\ grp.kv["type"].v = 2
          /\ \E l \in 1..Len(grp.kv["lapItemList"]) :
               ~(LapFields \subseteq DOMAIN grp.kv["lapItemList"][l].kv)

\* ------------------------------------------------------------------ claims

\* C1: for max_tries >= 1, when the first k attempts of get_raw_activity_data
\* fail (the request raised, or the payload is invalid) and attempt k+1 is
\* valid, the call returns attempt k+1's payload after exactly k+1 requests
\* and k sleeps: a failed attempt with tries left is followed by a sleep and
\* the next attempt, and a valid attempt ends the call with its payload.
C1_RetryThenSucceed ==
  (DirectFetch /\ max_tries >= 1 /\ NumRequests(events) >= 1) =>
    LET n == NumRequests(events)
        last == RequestOutcomes[n]
    IN /\ last \in ValidShapes =>
            /\ pc = "done"
            /\ result.t = "resp"
            /\ result.serial = n
            /\ result.json = DetailJson(last, activity)
            /\ NumSleeps(events) = n - 1
       /\ (FailedOutcome(last) /\ n < max_tries) =>
            /\ pc = "fetch"
            /\ NumSleeps(events) = n

\* C2: when every attempt fails, get_raw_activity_data with max_tries = n >= 1
\* raises RuntimeError after exactly n requests and n-1 sleeps, a sleep after
\* every failed attempt but the last, and never makes a request after the n-th.
C2_ExhaustionRaisesRuntimeError ==
  (DirectFetch /\ max_tries >= 1) =>
    /\ NumRequests(events) <= max_tries
    /\ (/\ pc \in {"done", "raised"}
        /\ \A i \in 1..NumRequests(events) : FailedOutcome(RequestOutcomes[i]))
       => /\ raised = "RuntimeError"
          /\ NumRequests(events) = max_tries
          /\ NumSleeps(events) = max_tries - 1
          /\ \A i \in 1..Len(events) :
               events[i].ev = IF i % 2 = 1 THEN "request" ELSE "sleep"

\* C3: in extract_data an entry whose detail fetch fails on every attempt
\* never aborts the run: no error leaves extract_data from the fetch, and the
\* finished run's collection holds exactly the entries it did not skip, in
\* listing order.
C3_FailingFetchNeverAborts ==
  call.name = "extract_data" =>
    /\ ~(pc = "raised" /\ raised_at = "fetch")
    /\ pc = "done" =>
         CollectedNames = [i \in 1..Len(SelectSeq(entries, IsKept)) |->
                             ToString(SelectSeq(entries, IsKept)[i])]

\* C4: valid_raw_activity_data is true exactly when the data envelope holds a
\* non-null summary and false, never an error, otherwise; inside
\* get_raw_activity_data an invalid response is a failed attempt and never
\* leaves the retry loop as an error.
C4_ValidationNeverRaises ==
  ~IsNone(resp_json) =>
    /\ valid_raw_activity_data(resp_json.json) =
         IF HasNonNullSummary(resp_json.json) THEN "True" ELSE "False"
    /\ ~HasNonNullSummary(resp_json.json) =>
         ~(pc = "raised" /\ raised_at = "fetch" /\ raised # "RuntimeError")

\* C5: in extract_data a valid payload that lacks a required field (a Summary
\* or Lap field, the frequencyList or lapList key) is logged and not appended,
\* and no error leaves extract_data: the loop goes on to the next entry.
C5_NormalizationFailureIsSkipped ==
  (/\ call.name = "extract_data"
   /\ ~IsNone(resp_json)
   /\ resp_json.shape \in ValidShapes
   /\ MissingRequired(resp_json.json)
   /\ pc = "loop" \/ (pc = "raised" /\ raised_at = "normalize"))
  => /\ pc = "loop"
     /\ activity \in SkippedEntries
     /\ \A i \in 1..Len(activities.root) : CollectedNames[i] # ToString(activity)

\* C6: listing with limit None against a server reporting count C issues the
\* count query (page 1, size 1), then the pages 1, 2, ... in increasing order
\* at size 200, ceil(C/200) of them in all, and returns their dataList
\* concatenated in request order.
C6_DiscoveryPagination ==
  (DirectList /\ IsNone(call.limit) /\ pc \in {"list_pages", "done", "raised"}) =>
    LET ml == ModeList(call.activity_types)
        np == ExpectedPages(ServerCountFor(server, ml), ACTIVITY_PAGINATION_LIMIT)
        k == Len(list_requests) - 1
    IN /\ k >= 0 /\ k <= np
       /\ list_requests[1].modeList = ml
       /\ list_requests[1].pageNumber = 1
       /\ list_requests[1].size = 1
       /\ \A i \in 1..k :
            /\ list_requests[i + 1].modeList = ml
            /\ list_requests[i + 1].pageNumber = i
            /\ list_requests[i + 1].size = ACTIVITY_PAGINATION_LIMIT
       /\ pc = "done" =>
            /\ k = np
            /\ result.v = ConcatPages(ml, np, ACTIVITY_PAGINATION_LIMIT)

\* C6, its case: the listing of a server of 450 activities returned after the
\* count query and three pages.
C6_Witness ==
  /\ DirectList /\ IsNone(call.limit) /\ pc = "done"
  /\ IsNone(call.activity_types)
  /\ server.count = 450
  /\ Len(list_requests) = 4
  /\ Len(result.v) = 450

\* C7: extract_data and export_activities list in discovery mode: the run
\* first reads the server's count (a query of size 1) and then processes every
\* activity the server reports, also when there are more than 200.
C7_OrchestratorsListAll ==
  (Orchestrated /\ pc \in {"loop", "fetch", "normalize", "export_request",
                           "download", "done"}) =>
    /\ list_requests[1].size = 1
    /\ entries = Range(1, server.count)

\* C8 as stated: listing with an explicit limit L >= 1 uses page size
\* min(L, 200) and issues one page request when L <= 200 and ceil(L/200) page
\* requests when L > 200.
C8_ExplicitLimitPaginates ==
  (DirectList /\ ~IsNone(call.limit) /\ pc = "done" /\ call.limit.v >= 1) =>
    /\ \A i \in 1..Len(list_requests) :
         list_requests[i].size = Min(call.limit.v, ACTIVITY_PAGINATION_LIMIT)
    /\ Len(list_requests) =
         IF call.limit.v <= ACTIVITY_PAGINATION_LIMIT THEN 1
         ELSE ExpectedPages(call.limit.v, ACTIVITY_PAGINATION_LIMIT)

\* C8, amended: listing with an explicit limit L # 0 issues exactly one page
\* request, for page 1 at size min(L, 200), whatever L is, and returns that
\* page: a limit above 200 never makes it ask for a second page.
C8_ExplicitLimitSinglePage ==
  (DirectList /\ ~IsNone(call.limit) /\ call.limit.v # 0) =>
    LET ml == ModeList(call.activity_types)
        sz == Min(call.limit.v, ACTIVITY_PAGINATION_LIMIT)
    IN /\ Len(list_requests) <= 1
       /\ \A i \in 1..Len(list_requests) :
            /\ list_requests[i].modeList = ml
            /\ list_requests[i].pageNumber = 1
            /\ list_requests[i].size = sz
       /\ pc = "done" =>
            /\ Len(list_requests) = 1
            /\ result.v = ServerPage(server, ml, 1, sz)

\* C8, its case: a listing with limit 450 of a server of 450 activities
\* returned after one page request of size 200.
C8_Witness ==
  /\ DirectList /\ pc = "done"
  /\ ~IsNone(call.limit) /\ call.limit.v = 450
  /\ IsNone(call.activity_types)
  /\ server.count = 450
  /\ Len(list_requests) = 1
  /\ Len(result.v) = 200

\* C9: listing with an explicit limit never fails because of the limit's
\* value: for every integer limit, 0 included, when every response is 2xx the
\* call raises nothing and returns a list.
C9_ExplicitLimitNeverFails ==
  (/\ DirectList /\ ~IsNone(call.limit)
   /\ pc \in {"list_pages", "done", "raised"}
   /\ \A i \in 1..Len(list_requests) : Ok(list_requests[i].status))
  => /\ pc # "raised"
     /\ pc = "done" => result.t = "list"

RECURSIVE RunningLapItems(_)
RunningLapItems(groups) ==
  IF Len(groups) = 0 THEN <<>>
  ELSE (IF groups[1].kv["type"] = IntVal(2)
        THEN groups[1].kv["lapItemList"] ELSE <<>>)
       \o RunningLapItems(Tail(groups))

\* The Lap models of lap items.
LapModels(items) == [i \in 1..Len(items) |-> BuildModel(LapFields, items[i].kv).val]

\* C11: get_laps_data returns exactly the lap items of the groups whose type
\* is the running lap-type code (the integer 2, as it arrives in the API
\* payload), flattened in order: a running group [A, B] followed by a bike
\* ride group [C] yields [A, B].
C11_RunningLapsReturned ==
  (call.name = "get_laps_data" /\ pc \in {"done", "raised"})
    => /\ pc = "done"
       /\ result = ListVal(LapModels(RunningLapItems(call.data.v)))

\* C12: get_activity_data returns five sequences (cadence, distance, heart,
\* heartLevel, timestamp), each as long as the input; position i of each
\* holds sample i's value for that field, or 0 when the sample lacks it, so
\* the order of the samples is preserved.
C12_FiveParallelSequences ==
  (call.name = "get_activity_data" /\ pc = "done")
    => LET data == call.data.v IN
       /\ DOMAIN result = {"cadence", "distance", "heart", "heartLevel", "timestamp"}
       /\ \A f \in DOMAIN result :
            /\ Len(result[f]) = Len(data)
            /\ \A i \in 1..Len(data) :
                 result[f][i] = IF f \in DOMAIN data[i].kv THEN data[i].kv[f] ELSE 0

\* get_activity_data has returned for three samples of which the first and
\* the last lack the cadence the second has.
C12_Witness ==
  /\ call.name = "get_activity_data"
  /\ pc = "done"
  /\ Len(call.data.v) = 3
  /\ result["cadence"] = <<0, 5, 0>>
  /\ result["heart"] = <<90, 0, 90>>

\* An extract_data has got past its listing step: it returned, or it raised
\* from a later step.
ExtractPastListing ==
  /\ call.name = "extract_data"
  /\ pc \in {"done", "raised"}
  /\ raised_at \notin {"list_start", "list_pages"}

\* C13: to_json called when no collection was ever initialized (before any
\* extract_data, or after an extract_data that failed at its listing step)
\* writes no file and raises no error; once an extract_data has got past
\* listing, to_json writes the whole collection in order, even when empty.
C13_ToJsonWritesInitializedCollection ==
  ~IsNone(json_out)
    => /\ json_out.raised = "none"
       /\ IF ExtractPastListing
          THEN /\ ~IsNone(json_out.file)
               /\ Len(json_out.file.json) = Len(activities.root)
               /\ \A i \in 1..Len(activities.root) :
                    /\ json_out.file.json[i].summary.name = activities.root[i].summary.name
                    /\ json_out.file.json[i].data = activities.root[i].data
                    /\ Len(json_out.file.json[i].laps) = Len(activities.root[i].laps)
          ELSE IsNone(json_out.file)

\* to_json has run after an extract_data whose listing was empty: the file
\* holds the empty collection.
C13_Witness ==
  /\ ~IsNone(json_out)
  /\ ExtractPastListing
  /\ ~IsNone(json_out.file)
  /\ json_out.file.json = <<>>

\* to_json has run after an extract_data that failed at its listing step.
C13_WitnessFailedListing ==
  /\ ~IsNone(json_out)
  /\ call.name = "extract_data"
  /\ raised_at \in {"list_start", "list_pages"}
  /\ IsNone(json_out.file)

\* to_json has run after an extract_data that collected two activities.
C13_WitnessTwoActivities ==
  /\ ~IsNone(json_out)
  /\ ExtractPastListing
  /\ ~IsNone(json_out.file)
  /\ Len(json_out.file.json) = 2

\* The detail fetch of the current entry is over and has used up its tries:
\* it made MAX_TRIES requests and every one of them failed.
FetchUsedUp ==
  /\ pc # "fetch"
  /\ NumRequests(events) = MAX_TRIES
  /\ \A i \in 1..MAX_TRIES : FailedOutcome(RequestOutcomes[i])

\* No download was requested and no file written for entry e.
NothingExported(e) ==
  /\ \A i \in 1..Len(downloads) : downloads[i] # e
  /\ \A i \in 1..Len(files) : files[i].label_id # e

\* The loop has gone past entry e.
LoopWentPast(e) == \E k \in 1..Len(entries) : entries[k] = e /\ k < idx

\* C14: in export_activities an entry whose detail fetch exhausts its
\* retries, and an entry whose export response has no data envelope, is
\* skipped: no download request is made and no file is written for it, no
\* error is raised, and the loop goes on to the next entry.
C14_ExportSkipsFailedEntries ==
  call.name = "export_activities" =>
    /\ FetchUsedUp =>
         /\ pc # "raised"
         /\ activity \in SkippedEntries
         /\ NothingExported(activity)
         /\ LoopWentPast(activity)
    /\ \A i \in 1..Len(skipped) :
         skipped[i].why = "unavailable" =>
           /\ NothingExported(skipped[i].entry)
           /\ LoopWentPast(skipped[i].entry)
           /\ ~(pc = "raised" /\ activity = skipped[i].entry)

\* C15: once the initial listing has succeeded, export_activities always
\* runs to the end of the listing: no failure confined to one activity (the
\* detail fetch, the summary decoding, a non-2xx answer to the export-URL
\* request, the file download) aborts the run or stops later entries from
\* being exported.
C15_ExportRunsToEnd ==
  call.name = "export_activities" =>
    /\ pc = "raised" => raised_at \in {"list_start", "list_pages"}
    /\ pc = "done" => idx = Len(entries) + 1

\* C16: when get_raw_activity_data called with max_tries = n exhausts its
\* attempts, the error raised names the detail endpoint and the number of
\* attempts actually made, n, for every n and not only for the default 3.
C16_ErrorNamesAttemptsMade ==
  (DirectFetch /\ max_tries >= 1 /\ pc = "raised" /\ raised = "RuntimeError")
    => /\ err_msg.url = "ACTIVITY_DETAILS_URL"
       /\ err_msg.attempts = NumRequests(events)
       /\ err_msg.attempts = max_tries

\* A login body that lacks the data envelope, the token or the user id.
MalformedLogin(shape) ==
  shape \in {"no_data", "data_null", "no_accessToken", "no_userId"}

C17_WitnessMalformed ==
  /\ call.name = "login"
  /\ pc = "raised"
  /\ raised = "KeyError"
  /\ login_log = <<[status |-> 200, shape |-> "no_userId"]>>

\* The sessions a call opens: its own, and the one of the get_activities it
\* calls.
SessionsOf(name) ==
  CASE name = "get_activities" -> {"get_activities.session"}
    [] name = "extract_data" -> {"extract_data.session", "get_activities.session"}
    [] name = "export_activities" ->
         {"export_activities.dl_session", "export_activities.query_session",
          "get_activities.session"}

\* C18: every HTTP session opened by extract_data, export_activities or
\* get_activities is closed by the time the call returns or raises, on every
\* exit path; the session of the listing is closed when the listing returns
\* to its orchestrator.
C18_SessionsClosedOnExit ==
  call.name \in {"get_activities", "extract_data", "export_activities"} =>
    /\ sessions.opened = Cardinality(SessionsOf(call.name))
    /\ sessions.open \subseteq SessionsOf(call.name)
    /\ pc \in {"done", "raised"} => sessions.open = {}
    /\ pc \in {"loop", "fetch", "normalize", "export_request", "download"}
         => sessions.open = SessionsOf(call.name) \ {"get_activities.session"}

\* export_activities has raised from a file download, its three sessions
\* opened and none left open.
C18_Witness ==
  /\ call.name = "export_activities"
  /\ pc = "raised"
  /\ raised_at = "download"
  /\ sessions = [opened |-> 3, open |-> {}]

\* C19: every HTTP call the extractor makes (login, the listing's count
\* query and pages, the detail fetch, the export-URL request, the file
\* download) carries the same fixed per-request timeout: no call is issued
\* without it.
C19_EveryCallHasTimeout ==
  \A c \in http_calls : c.timeout = API_TIMEOUT

\* C20: Summary and Lap decode a raw integer timestamp r as the instant
\* epoch + r/100 seconds: raw 0 is the epoch and raw 100 is exactly 1 second
\* after it; the later timezone conversion changes only the displayed zone,
\* never the instant, and the serialized form shows that same instant.
C20_TimestampIsHundredths ==
  (call.name \in {"get_summary_data", "Lap"} /\ pc = "done")
    => \A f \in TimestampFields :
         LET r == call.data.kv[f]
             dt == result[f]
             iso == serialize_dt(dt)
         IN /\ dt.us = r * 10000
            /\ r = 0 => dt.us = Epoch.us
            /\ r = 100 => dt.us = Epoch.us + 1000000
            /\ dt.tz = "America/New_York"
            /\ (iso.wall_s - iso.utcoffset) * 1000000 + iso.wall_us = r * 10000

\* A Summary has been built from a start 1 second after the epoch (raw 100)
\* and an end 1.5 seconds before it (raw -150).
C20_Witness ==
  /\ call.name = "get_summary_data"
  /\ pc = "done"
  /\ call.data.kv["startTimestamp"] = 100
  /\ call.data.kv["endTimestamp"] = 0 - 150
  /\ result["startTimestamp"].us = 1000000
  /\ result["endTimestamp"].us = 0 - 1500000

\* A Lap has been built from a start at the epoch (raw 0).
C20_WitnessLap ==
  /\ call.name = "Lap"
  /\ pc = "done"
  /\ call.data.kv["startTimestamp"] = 0
  /\ result["startTimestamp"] = [us |-> 0, tz |-> "America/New_York"]

\* The entries extract_data has finished with, in listing order.
ProcessedEntries == SubSeq(entries, 1, idx - 1)

\* C21: during extract_data the collection is append-only: every step leaves
\* it alone or adds one activity at its end, while finishing one entry (so it
\* is at every step a prefix of its final value); its length never exceeds
\* the number of entries processed so far; and its activities are those of
\* the processed entries that were not skipped, in listing order.
C21_CollectionAppendOnly ==
  /\ []((call.name = "extract_data" /\ ~IsNone(activities)) =>
          /\ Len(activities.root) <= Len(ProcessedEntries)
          /\ CollectedNames =
               [i \in 1..Len(SelectSeq(ProcessedEntries, IsKept)) |->
                  ToString(SelectSeq(ProcessedEntries, IsKept)[i])])
  /\ [][(call.name = "extract_data" /\ ~IsNone(activities)) =>
          \/ activities' = activities
          \/ /\ ~IsNone(activities')
             /\ Len(activities'.root) = Len(activities.root) + 1
             /\ SubSeq(activities'.root, 1, Len(activities.root)) = activities.root
             /\ idx' = idx + 1]_vars

\* extract_data has returned with three activities collected, in listing
\* order.
C21_Witness ==
  /\ call.name = "extract_data"
  /\ pc = "done"
  /\ ~IsNone(activities)
  /\ CollectedNames = <<"1", "2", "3">>

\* C22: whatever get_raw_activity_data returns satisfies
\* valid_raw_activity_data: for any sequence of server answers and any
\* max_tries it never returns a payload without a non-null data.summary, so
\* extract_data and export_activities never read data.summary from an
\* invalid payload.
C22_ReturnedPayloadIsValid ==
  /\ (DirectFetch /\ pc = "done") =>
       /\ result.t = "resp"
       /\ HasNonNullSummary(result.json)
       /\ result = resp_json
  /\ (Orchestrated /\ pc \in {"normalize", "export_request", "download"}) =>
       /\ ~IsNone(resp_json)
       /\ HasNonNullSummary(resp_json.json)

\* get_raw_activity_data has returned the payload of its second request,
\* the first having answered with a null summary.
C22_Witness ==
  /\ DirectFetch
  /\ pc = "done"
  /\ RequestOutcomes = <<"summary_null", "full">>
  /\ HasNonNullSummary(result.json)

\* extract_data is about to read data.summary of a payload it was returned.
C22_WitnessOrchestrated ==
  /\ call.name = "extract_data"
  /\ pc = "normalize"
  /\ HasNonNullSummary(resp_json.json)

\* C23: a failed login (a non-2xx response, or a body missing data,
\* accessToken or userId) leaves access_token and user_id both at their
\* previous values, the None of a new extractor here: login never stores one
\* of the two without the other.
C23_FailedLoginStoresNothing ==
  /\ (call.name = "login" /\ pc = "raised") =>
       /\ access_token = None
       /\ user_id = None
  /\ IsNone(access_token) <=> IsNone(user_id)

\* C24: get_raw_activity_data called with max_tries <= 0 issues no request
\* and no sleep and raises RuntimeError; it never returns a payload without
\* having made at least one request.
C24_NoTriesNoRequest ==
  DirectFetch =>
    /\ max_tries <= 0 =>
         /\ events = <<>>
         /\ pc \in {"fetch", "raised"}
         /\ pc = "raised" => raised = "RuntimeError" /\ raised_at = "fetch"
    /\ pc = "done" =>
         /\ NumRequests(events) >= 1
         /\ result.serial = NumRequests(events)

\* get_raw_activity_data(max_tries=0) has raised RuntimeError without a
\* request or a sleep.
C24_Witness ==
  /\ DirectFetch
  /\ max_tries = 0
  /\ pc = "raised"
  /\ raised = "RuntimeError"
  /\ events = <<>>

====
